---- MODULE Spec2Model ----
(***************************************************************************)
(* Model of the Knowsta Chat API (src/api/index.py): module load with its  *)
(* three environment secrets, the X-API-KEY dependency, the health check,  *)
(* POST /messages (insert) and GET /messages (latest 50, oldest first).    *)
(*                                                                         *)
(* The 'messages' table lives in Supabase/Postgres.  It is modelled as a   *)
(* sequence of rows in physical order.  The table assigns id and           *)
(* created_at on insert (index.py line 74); a row inserted through this    *)
(* service gets a created_at later than every row already stored.  Rows    *)
(* that were in the table before the service started carry arbitrary       *)
(* created_at values, ties included, in arbitrary physical order.          *)
(*                                                                         *)
(* Request bodies are JSON objects; each of the two fields of Message is   *)
(* absent, null, a nested object, or a string.                             *)
(***************************************************************************)
EXTENDS Integers, Sequences, FiniteSets

\* ------------------------------------------------------------------ bounds
\* Number of rows that requests may add to the table in one behaviour.
MaxInserts == 2
\* Number of distinct created_at values among the rows present at startup.
InitStamps == 5

\* ------------------------------------------------------- program constants
\* .limit(50) in get_messages
Limit == 50

\* --------------------------------------------------------------- values
\* Python's None, for environment variables, the header and the client.
None == "<None>"
\* `supabase` before the module assigned it.
Unbound == "<unbound>"
\* JSON shapes of a body field that are not strings.
Absent == "<absent>"
Null == "<null>"
Obj == "<object>"

EnvValues == {None, "", "set"}
KeyValues == {None, "", "k1"}
HeaderValues == {None, "", "k1", "K1"}
UserIds == {"u1", ""}
Contents == {"hello", ""}
NonStrings == {Absent, Null, Obj}
Bodies == [user_id : UserIds \cup {Absent, Null}, content : Contents \cup {Absent, Obj}]
Routes == {"GET /", "POST /messages", "GET /messages"}
Protected == {"POST /messages", "GET /messages"}

\* Number of rows in the table when the service starts.
InitSizes == {0, 2, Limit - 1, Limit + 1}

\* Status recorded for a request that no route handler answered.
NoResponse == 0

\* Python truthiness of an Optional[str]: `not v`.
Falsy(v) == v = None \/ v = ""

Min(a, b) == IF a <= b THEN a ELSE b

\* ------------------------------------------------------------ module load
\* Mutants of StartupOutcome.
StartupOutcome_NoDbCheck(url, cred, key) ==
    IF Falsy(key) THEN "failed" ELSE "serving"

StartupOutcome_NoKeyCheck(url, cred, key) ==
    IF Falsy(url) \/ Falsy(cred) THEN "failed" ELSE "serving"

\* The two startup checks: either raises ValueError and the module never
\* finishes loading.
StartupOutcome(url, cred, key) ==
    IF Falsy(url) \/ Falsy(cred) THEN "failed"
    ELSE IF Falsy(key) THEN "failed"
    ELSE "serving"

\* ------------------------------------------------------------- auth gate
\* Mutants of verify_api_key.
verify_api_key_NoNoneCheck(x_api_key, key) ==
    x_api_key = key \/ x_api_key = ""

verify_api_key_AcceptAll(x_api_key, key) == TRUE

\* TRUE when the dependency returns the key, FALSE when it raises 401.
verify_api_key(x_api_key, key) ==
    ~(x_api_key = None \/ x_api_key # key)

\* ------------------------------------------------------------- Message
\* Mutant of ValidMessage: a null field is let through.
ValidMessage_AllowNull(body) ==
    /\ body.user_id \notin {Absent, Obj}
    /\ body.content \notin {Absent, Obj}

\* pydantic validation of the body against Message: both fields required
\* strings.
ValidMessage(body) ==
    /\ body.user_id \notin NonStrings
    /\ body.content \notin NonStrings

\* ------------------------------------------------------------ the table
\* Mutant of InsertRow: the insert replaces the newest row.
InsertRow_Overwrite(rows, body, now) ==
    LET row == [id |-> Len(rows) + 1, user_id |-> body.user_id,
                content |-> body.content, created_at |-> now + 1]
    IN IF rows = <<>> THEN <<row>>
       ELSE SubSeq(rows, 1, Len(rows) - 1) \o <<row>>

\* Mutant of InsertRow: the content column is not the content sent.
InsertRow_DropContent(rows, body, now) ==
    Append(rows, [id |-> Len(rows) + 1, user_id |-> body.user_id,
                  content |-> "", created_at |-> now + 1])

\* insert({"user_id", "content"}): the table fills in id and created_at.
InsertRow(rows, body, now) ==
    Append(rows, [id |-> Len(rows) + 1, user_id |-> body.user_id,
                  content |-> body.content, created_at |-> now + 1])

\* The latest created_at among rows, 0 for an empty table.
MaxStamp(rows) ==
    LET stamps == {rows[i].created_at : i \in 1..Len(rows)} \cup {0}
    IN CHOOSE m \in stamps : \A t \in stamps : t <= m

\* The rows whose created_at is t.  Postgres leaves the order of rows with
\* equal sort keys open: they come in physical order or in its reverse.
SameStamp(rows, t, tie) ==
    LET same == SelectSeq(rows, LAMBDA r : r.created_at = t)
    IN IF tie = "physical" THEN same
       ELSE [i \in 1..Len(same) |-> same[Len(same) + 1 - i]]

RECURSIVE StampsDownFrom(_, _, _)
StampsDownFrom(rows, t, tie) ==
    IF t < 0 THEN <<>>
    ELSE SameStamp(rows, t, tie) \o StampsDownFrom(rows, t - 1, tie)

\* Mutant of OrderDesc: ascending order.
OrderDesc_Ascending(rows, tie) ==
    LET d == StampsDownFrom(rows, MaxStamp(rows), tie)
    IN [i \in 1..Len(d) |-> d[Len(d) + 1 - i]]

\* .order("created_at", desc=True)
OrderDesc(rows, tie) == StampsDownFrom(rows, MaxStamp(rows), tie)

\* Mutant of LimitRows: one row too many.
LimitRows_OffByOne(rows) == SubSeq(rows, 1, Min(Len(rows), Limit + 1))

\* .limit(50)
LimitRows(rows) == SubSeq(rows, 1, Min(Len(rows), Limit))

\* Mutant of Reversed: the page is returned as fetched.
Reversed_Identity(s) == s

\* messages[::-1]
Reversed(s) == [i \in 1..Len(s) |-> s[Len(s) + 1 - i]]

\* select("*").order("created_at", desc=True).limit(50).execute(), data[1]
SelectRecent(rows, tie) == LimitRows(OrderDesc(rows, tie))

\* Mutant of InsertedRecord: the list of returned rows is taken as success.
InsertedRecord_NoIndex(returned) ==
    [raised |-> FALSE, data |-> returned]

\* data[1][0]: the first returned row; IndexError when there is none.
InsertedRecord(returned) ==
    IF returned = <<>> THEN [raised |-> TRUE, data |-> <<>>]
    ELSE [raised |-> FALSE, data |-> <<returned[1]>>]

\* Rows present in the table at startup: n rows, created_at spread over
\* InitStamps values, not in physical order.
InitRows(n) ==
    [i \in 1..n |-> [id |-> i, user_id |-> "u1", content |-> "hello",
                     created_at |-> (i * 3) % InitStamps]]

\* ---------------------------------------------------------------- state
VARIABLES
    SUPABASE_URL, SUPABASE_ANON_KEY, API_ACCESS_KEY,  \* module globals
    supabase,      \* the client: Unbound, None or "client"
    pc,            \* "load", "serving" or "failed"
    store,         \* the 'messages' table
    clock,         \* the latest created_at the table has assigned
    inserted,      \* rows added since startup
    req,           \* the last request
    resp,          \* its response
    calls,         \* what the last request did to the persistence layer
    prevCreated    \* <<[row, sent]>> when the request before the last one
                   \* was a successful append of body `sent` that returned
                   \* `row`, else <<>>

vars == <<SUPABASE_URL, SUPABASE_ANON_KEY, API_ACCESS_KEY, supabase, pc,
          store, clock, inserted, req, resp, calls, prevCreated>>

config == <<SUPABASE_URL, SUPABASE_ANON_KEY, API_ACCESS_KEY>>

NoRequest == [route |-> "none", header |-> None,
              body |-> [user_id |-> Absent, content |-> Absent]]
NoCalls == [insert |-> 0, select |-> 0, outcome |-> "none", changed |-> FALSE]
NoBody == [user_id |-> Absent, content |-> Absent]

Response(status, fields, detail, data) ==
    [status |-> status, fields |-> fields, detail |-> detail, data |-> data]

HTTPException(status, detail) == Response(status, {"detail"}, detail, <<>>)

Init ==
    /\ SUPABASE_URL \in EnvValues
    /\ SUPABASE_ANON_KEY \in EnvValues
    /\ API_ACCESS_KEY \in KeyValues
    /\ supabase = Unbound
    /\ pc = "load"
    /\ \E n \in InitSizes : store = InitRows(n)
    /\ clock = MaxStamp(store)
    /\ inserted = 0
    /\ req = NoRequest
    /\ resp = Response(NoResponse, {}, "", <<>>)
    /\ calls = NoCalls
    /\ prevCreated = <<>>

\* What the next request remembers of the one before it.
Created == IF req.route = "POST /messages" /\ resp.status = 200
           THEN <<[row |-> resp.data[1], sent |-> req.body]>> ELSE <<>>

\* ------------------------------------------------------------- actions
\* Import of the module: the startup checks, then create_client, which may
\* raise and leave supabase = None.
LoadModule ==
    /\ pc = "load"
    /\ pc' = StartupOutcome(SUPABASE_URL, SUPABASE_ANON_KEY, API_ACCESS_KEY)
    /\ \E clientRaises \in BOOLEAN :
          supabase' = IF pc' = "failed" THEN Unbound
                      ELSE IF clientRaises THEN None ELSE "client"
    /\ UNCHANGED <<config, store, clock, inserted, req, resp, calls,
                   prevCreated>>

\* A request that arrives when the module failed to load: there is no app,
\* no route handler runs.
Unserved ==
    /\ pc = "failed"
    /\ \E route \in Routes, h \in HeaderValues :
          req' = [route |-> route, header |-> h, body |-> NoBody]
    /\ resp' = Response(NoResponse, {}, "", <<>>)
    /\ calls' = NoCalls
    /\ prevCreated' = Created
    /\ UNCHANGED <<config, supabase, pc, store, clock, inserted>>

\* GET /
root ==
    /\ pc = "serving"
    /\ \E h \in HeaderValues :
          req' = [route |-> "GET /", header |-> h, body |-> NoBody]
    /\ resp' = Response(200, {"status", "service"}, "ok", <<>>)
    /\ calls' = NoCalls
    /\ prevCreated' = Created
    /\ UNCHANGED <<config, supabase, pc, store, clock, inserted>>

\* POST /messages
send_message ==
    /\ pc = "serving"
    /\ \E h \in HeaderValues, body \in Bodies :
          /\ req' = [route |-> "POST /messages", header |-> h, body |-> body]
          /\ prevCreated' = Created
          /\ IF ~verify_api_key(h, API_ACCESS_KEY) THEN
                /\ resp' = HTTPException(401,
                       "Unauthorized: Invalid or missing X-API-KEY header.")
                /\ calls' = NoCalls
                /\ UNCHANGED <<store, clock, inserted>>
             ELSE IF ~ValidMessage(body) THEN
                /\ resp' = HTTPException(422, "validation error")
                /\ calls' = NoCalls
                /\ UNCHANGED <<store, clock, inserted>>
             ELSE IF supabase = None THEN
                /\ resp' = HTTPException(500, "Database connection error.")
                /\ calls' = NoCalls
                /\ UNCHANGED <<store, clock, inserted>>
             ELSE
                \* execute(): the insert lands unless the call is rejected;
                \* a call that returns no row may or may not have landed.
                \E outcome \in {"ok", "error", "empty"}, landed \in BOOLEAN :
                   /\ outcome = "ok" => landed
                   /\ outcome = "error" => ~landed
                   /\ landed => inserted < MaxInserts
                   /\ store' = IF landed THEN InsertRow(store, body, clock)
                               ELSE store
                   /\ clock' = IF landed THEN clock + 1 ELSE clock
                   /\ inserted' = IF landed THEN inserted + 1 ELSE inserted
                   /\ calls' = [insert |-> 1, select |-> 0,
                                outcome |-> outcome,
                                changed |-> store' # store]
                   /\ LET returned == IF outcome = "ok"
                                      THEN <<store'[Len(store')]>> ELSE <<>>
                          rec == InsertedRecord(returned)
                      IN resp' =
                           IF outcome = "error" \/ rec.raised
                           THEN HTTPException(500,
                                  "Failed to insert message into database.")
                           ELSE Response(200, {"success", "message_data"},
                                         "", rec.data)
    /\ UNCHANGED <<config, supabase, pc>>

\* GET /messages
get_messages ==
    /\ pc = "serving"
    /\ \E h \in HeaderValues :
          /\ req' = [route |-> "GET /messages", header |-> h, body |-> NoBody]
          /\ prevCreated' = Created
          /\ IF ~verify_api_key(h, API_ACCESS_KEY) THEN
                /\ resp' = HTTPException(401,
                       "Unauthorized: Invalid or missing X-API-KEY header.")
                /\ calls' = NoCalls
             ELSE IF supabase = None THEN
                /\ resp' = HTTPException(500, "Database connection error.")
                /\ calls' = NoCalls
             ELSE
                \/ /\ calls' = [insert |-> 0, select |-> 1,
                                outcome |-> "error", changed |-> FALSE]
                   /\ resp' = HTTPException(500,
                                "Failed to retrieve messages from database.")
                \/ \E tie \in {"physical", "reverse"} :
                      /\ calls' = [insert |-> 0, select |-> 1,
                                   outcome |-> "ok", changed |-> FALSE]
                      /\ resp' = Response(200, {}, "",
                                    Reversed(SelectRecent(store, tie)))
    /\ UNCHANGED <<config, supabase, pc, store, clock, inserted>>

Next ==
    \/ LoadModule
    \/ Unserved
    \/ root
    \/ send_message
    \/ get_messages

Spec == Init /\ [][Next]_vars

\* ------------------------------------------------------------ properties
\* The last request was dispatched to a route of the running application.
Served == pc = "serving" /\ req.route \in Routes

\* The X-API-KEY header of the last request is missing, empty or not the
\* configured key.
BadKey ==
    req.header = None \/ req.header = "" \/ req.header # API_ACCESS_KEY

\* Both fields of a body are strings.
BothStrings(body) == body.user_id \in UserIds /\ body.content \in Contents

NoPersistenceCall ==
    calls.insert = 0 /\ calls.select = 0 /\ ~calls.changed

ListedOk == Served /\ req.route = "GET /messages" /\ resp.status = 200

\* C1: a request to POST /messages or GET /messages whose X-API-KEY is
\* missing, empty or different from the configured key is answered 401, and
\* it issues no insert and no select and leaves the table as it was.
C1_AuthDenied ==
    (Served /\ req.route \in Protected /\ BadKey) =>
        resp.status = 401 /\ NoPersistenceCall

C1_Witness ==
    /\ Served /\ req.route = "POST /messages" /\ req.header = None
    /\ BothStrings(req.body) /\ supabase = "client" /\ resp.status = 401

\* C2: a list-recent that directly follows a successful append contains the
\* row the append returned; that row is a row of the table, its user_id and
\* content are the ones sent, and when the table has fewer than 50 rows it
\* is the last element of the list.
C2_RoundTrip ==
    (ListedOk /\ prevCreated # <<>>) =>
        LET m == prevCreated[1]
            n == Len(resp.data)
        IN /\ m.row.user_id = m.sent.user_id
           /\ m.row.content = m.sent.content
           /\ \E i \in 1..Len(store) : store[i] = m.row
           /\ \E i \in 1..n : resp.data[i] = m.row
           /\ Len(store) < Limit => resp.data[n] = m.row

C2_Witness ==
    /\ ListedOk /\ prevCreated # <<>>
    /\ Len(store) > 1 /\ Len(store) < Limit
    /\ resp.data[Len(resp.data)] = prevCreated[1].row

\* C3: every successful list-recent response is ascending by created_at.
C3_Sorted ==
    ListedOk =>
        \A i, j \in 1..Len(resp.data) :
            i < j => resp.data[i].created_at <= resp.data[j].created_at

C3_Witness ==
    /\ ListedOk /\ Len(resp.data) = Limit
    /\ resp.data[1].created_at < resp.data[Limit].created_at

\* C4: with N rows in the table a successful list-recent returns exactly
\* min(N, 50) distinct rows of the table, and no row left out has a later
\* created_at than a row returned.
C4_Window ==
    ListedOk =>
        LET n == Len(resp.data)
            listed == {resp.data[i] : i \in 1..n}
            stored == {store[i] : i \in 1..Len(store)}
        IN /\ n = Min(Len(store), Limit)
           /\ n <= Limit
           /\ Cardinality(listed) = n
           /\ listed \subseteq stored
           /\ \A out \in stored \ listed : \A r \in listed :
                  out.created_at <= r.created_at

C4_Witness ==
    /\ ListedOk /\ Len(store) > Limit /\ Len(resp.data) = Limit
    /\ inserted > 0

\* C5 as stated: with the persistence client unconstructed every request to
\* a protected route is answered 401, whatever key it carries.
C5_Original ==
    (Served /\ supabase = None /\ req.route \in Protected) =>
        resp.status = 401 /\ NoPersistenceCall

\* C5 as amended: with the persistence client unconstructed a request to a
\* protected route is answered 401 when its key is bad; with the right key
\* it is answered 422 (append with an invalid payload) or else 500; in no
\* case is a read or a write issued or a success returned.
C5_Amended ==
    (Served /\ supabase = None /\ req.route \in Protected) =>
        /\ BadKey => resp.status = 401
        /\ ~BadKey =>
              resp.status = IF req.route = "POST /messages"
                               /\ ~BothStrings(req.body)
                            THEN 422 ELSE 500
        /\ NoPersistenceCall

C5_Witness ==
    /\ Served /\ supabase = None /\ req.route = "GET /messages"
    /\ req.header = API_ACCESS_KEY /\ resp.status = 500

\* C6 as stated: with the database endpoint or credential absent the
\* process still starts, the client unconstructed, and the health check
\* answers 200 with a secrets_loaded flag.
C6_Original ==
    (pc # "load" /\ (Falsy(SUPABASE_URL) \/ Falsy(SUPABASE_ANON_KEY))) =>
        /\ pc = "serving" /\ supabase = None
        /\ req.route = "GET /" =>
              resp.status = 200 /\ "secrets_loaded" \in resp.fields

\* C6 as amended: with the database endpoint or credential absent the
\* module fails to load, no client is bound and no request is answered by
\* the application; when the application runs, both were present, and the
\* health check answers 200 whatever the X-API-KEY, with a body of status
\* and service only and without touching the persistence layer.
C6_Amended ==
    /\ (pc # "load" /\ (Falsy(SUPABASE_URL) \/ Falsy(SUPABASE_ANON_KEY))) =>
          pc = "failed" /\ supabase = Unbound /\ resp.status = NoResponse
    /\ (Served /\ req.route = "GET /") =>
          /\ resp.status = 200
          /\ resp.fields = {"status", "service"}
          /\ NoPersistenceCall
          /\ ~Falsy(SUPABASE_URL) /\ ~Falsy(SUPABASE_ANON_KEY)

C6_Witness ==
    /\ pc = "failed" /\ Falsy(SUPABASE_URL) /\ ~Falsy(API_ACCESS_KEY)
    /\ req.route = "GET /" /\ resp.status = NoResponse

\* C7 as stated: with the service access key absent every request to a
\* protected route is answered 401.
C7_Original ==
    (Falsy(API_ACCESS_KEY) /\ req.route \in Protected) => resp.status = 401

\* C7 as amended: with the service access key absent or empty the module
\* fails to load, so no request to a protected route is authenticated: none
\* is answered by a route handler and none reaches the persistence layer,
\* whatever its X-API-KEY.
C7_Amended ==
    (Falsy(API_ACCESS_KEY) /\ pc # "load") =>
        /\ pc = "failed"
        /\ req.route \in Protected =>
              resp.status = NoResponse /\ NoPersistenceCall

C7_Witness ==
    /\ API_ACCESS_KEY = "" /\ ~Falsy(SUPABASE_URL)
    /\ ~Falsy(SUPABASE_ANON_KEY) /\ pc = "failed"
    /\ req.route = "POST /messages" /\ req.header = ""

\* C8: an append with the right key whose payload lacks a field or has a
\* field that is not a string is answered 422 without an insert; an insert
\* is issued only by an append with the right key and a valid payload.
C8_Validation ==
    /\ (Served /\ req.route = "POST /messages" /\ ~BadKey
          /\ ~BothStrings(req.body)) =>
          resp.status = 422 /\ NoPersistenceCall
    /\ (calls.insert > 0 \/ calls.changed) =>
          /\ req.route = "POST /messages"
          /\ ~BadKey
          /\ BothStrings(req.body)

C8_Witness ==
    /\ Served /\ req.route = "POST /messages" /\ ~BadKey
    /\ req.body.user_id = Null /\ req.body.content = "hello"
    /\ supabase = "client" /\ resp.status = 422

\* C9: a valid append with the right key ends in 500 when the client is
\* unconstructed, when the insert raises and when the insert returns no
\* row; the insert is attempted at most once (not at all without a client).
C9_Failure ==
    (Served /\ req.route = "POST /messages" /\ ~BadKey
       /\ BothStrings(req.body)) =>
        /\ (supabase = None \/ calls.outcome \in {"error", "empty"}) =>
              resp.status = 500
        /\ calls.insert = IF supabase = None THEN 0 ELSE 1
        /\ resp.status \in {200, 500}

C9_Witness ==
    /\ Served /\ req.route = "POST /messages" /\ ~BadKey
    /\ BothStrings(req.body) /\ calls.outcome = "empty"
    /\ calls.insert = 1 /\ resp.status = 500

\* C10 as stated: rows are never altered or removed, and the table changes
\* only by the one insert of a successful append.
C10_Original ==
    [][/\ Len(store') >= Len(store)
       /\ SubSeq(store', 1, Len(store)) = store
       /\ store' # store =>
             /\ req'.route = "POST /messages"
             /\ resp'.status = 200
             /\ store' = Append(store, resp'.data[1])]_vars

\* C10 as amended: rows are never altered or removed, and the table changes
\* only by the one insert of an append that passed the auth gate and the
\* payload validation, whether that append is answered 200 or 500.
C10_Amended ==
    [][/\ Len(store') >= Len(store)
       /\ SubSeq(store', 1, Len(store)) = store
       /\ store' # store =>
             /\ Len(store') = Len(store) + 1
             /\ req'.route = "POST /messages"
             /\ req'.header = API_ACCESS_KEY
             /\ BothStrings(req'.body)
             /\ calls'.insert = 1
             /\ resp'.status \in {200, 500}
             /\ resp'.status = 200 => store' = Append(store, resp'.data[1])]_vars

C10_Witness ==
    /\ Served /\ req.route = "POST /messages" /\ calls.changed
    /\ resp.status = 500 /\ Len(store) > 1

====
